---- MODULE Spec2Model ----
(***************************************************************************)
(* A model of the cuckoo filter of src/src/lib.rs: construction            *)
(* (Filter::new / init_buckets), the fingerprint and index computations,   *)
(* the bucket store (try_insert, swap) and the insertion algorithm with    *)
(* its bounded relocation loop (insert, insert_u8, insert_u16).            *)
(*                                                                         *)
(* A hashed item is represented by its 64-bit hash, kept as two 32-bit     *)
(* words [hi, lo]: (h >> 32) is h.hi and (h as u32) is h.lo.  The hash of  *)
(* a fingerprint (DefaultHasher over the fingerprint alone) is a fixed but *)
(* arbitrary function: the variable hash64_low holds its low 32 bits for   *)
(* every fingerprint the sampled items produce.  The thread-local random   *)
(* generator is modelled by the draws an insert receives.                  *)
(***************************************************************************)
EXTENDS Integers, Sequences, FiniteSets, TLC

VARIABLES
    lifecycle,    \* "unconstructed", "operational", "rejected" or "panicked"
    config,       \* the Config handed to Filter::new
    filter,       \* the Filter (NoFilter while there is none)
    hash64_low,   \* fingerprint -> low 32 bits of hash64(fingerprint)
    calls,        \* number of insert calls made
    oks,          \* number of insert calls that returned Ok
    last,         \* what the last call did (NoCall before the first); repeat
                  \* says that its item is the item of the call before it
    attempts      \* the items handed to insert so far, each as its
                  \* fingerprint, its primary index and whether Ok came back

vars == <<lifecycle, config, filter, hash64_low, calls, oks, last, attempts>>

---------------------------------------------------------------------------
(* Bounds of the model *)

MaxBuckets == 2
MaxEntries == 2
MaxSwaps == 2
MaxInserts == 3
\* the fingerprint computation is swept over the high words 0 .. MaxHiWord
MaxHiWord == 520

(* Sampled inputs *)

\* finger_bits values handed to new: the two supported and some that are not
FingerBitsChoices == {0, 8, 16, 32}
\* high 32-bit words of item hashes: 0 gives the smallest fingerprint of both
\* widths, 65534 the largest of both (65534 % 255 = 254, 65534 % 65535 = 65534)
HiWords == {0, 65534}
\* low 32-bit words of hashes, for a store of num_buckets buckets: every
\* bucket is the remainder of exactly one word, and the largest word wraps
\* around to bucket 0
LoWords(num_buckets) ==
    1 .. (IF num_buckets = 0 THEN 1 ELSE num_buckets)
\* the items handed to insert, each given by the two halves of its hash
Items(num_buckets) == [hi : HiWords, lo : LoWords(num_buckets)]

Configs ==
    [finger_bits : FingerBitsChoices,
     num_buckets : 0 .. MaxBuckets,
     num_entries : 0 .. MaxEntries,
     max_swaps   : 0 .. MaxSwaps]

NoConfig == [present |-> FALSE]
NoFilter == [present |-> FALSE]
NoCall == [op |-> "none"]

Min(S) == CHOOSE x \in S : \A y \in S : x <= y

---------------------------------------------------------------------------
(* Integer widths *)

AsU8(x) == x % 256
AsU16(x) == x % 65536

---------------------------------------------------------------------------
(* Construction *)

\* a variant that takes every width of 16 bits or more for a 16-bit store
init_buckets_16_or_more(num_buckets, num_entries, finger_bits) ==
    LET zeros == [i \in 0 .. num_buckets * num_entries - 1 |-> 0]
    IN  IF finger_bits = 8
        THEN [ok |-> TRUE, buckets |-> [variant |-> "U8", vec |-> zeros],
              bucket_type |-> "U8"]
        ELSE IF finger_bits >= 16
        THEN [ok |-> TRUE, buckets |-> [variant |-> "U16", vec |-> zeros],
              bucket_type |-> "U16"]
        ELSE [ok |-> FALSE]

\* init_buckets: n zeroed slots of the width finger_bits selects, or Err
init_buckets(num_buckets, num_entries, finger_bits) ==
    LET n == num_buckets * num_entries
        zeros == [i \in 0 .. n - 1 |-> 0]
    IN  IF finger_bits = 8
        THEN [ok |-> TRUE, buckets |-> [variant |-> "U8", vec |-> zeros],
              bucket_type |-> "U8"]
        ELSE IF finger_bits = 16
        THEN [ok |-> TRUE, buckets |-> [variant |-> "U16", vec |-> zeros],
              bucket_type |-> "U16"]
        ELSE [ok |-> FALSE]

\* Filter::new: Ok(Filter) with the config copied in and used = 0, or Err(())
new(c) ==
    LET r == init_buckets(c.num_buckets, c.num_entries, c.finger_bits)
    IN  IF r.ok
        THEN [ok |-> TRUE,
              filter |-> [finger_bits |-> c.finger_bits,
                          num_buckets |-> c.num_buckets,
                          num_entries |-> c.num_entries,
                          max_swaps   |-> c.max_swaps,
                          bucket_type |-> r.bucket_type,
                          buckets     |-> r.buckets,
                          used        |-> 0]]
        ELSE [ok |-> FALSE]

capacity(self) == self.num_buckets * self.num_entries

\* used(): the counter kept by insert
used(self) == self.used

\* load_factor(): used() as f64 / capacity() as f64, kept as the pair of the
\* two operands (both conversions are exact below 2^53; a zero denominator
\* gives NaN or an infinity, never a panic)
load_factor(self) == [num |-> used(self), den |-> capacity(self)]

---------------------------------------------------------------------------
(* Hashing *)

\* low 32 bits of hash64(fingerprint); the table covers every fingerprint of
\* the sampled items, and any other value is taken to hash to 0
Hash64Low(finger) ==
    IF finger \in DOMAIN hash64_low THEN hash64_low[finger] ELSE 0

\* a variant that reduces modulo 256 instead of 255
finger8_index_mod_256(self, h) ==
    LET sum == AsU8(h.hi % 256) + 1
        finger == AsU8(sum)
    IN  IF sum # finger
        THEN [panic |-> "overflow", sum |-> sum, finger |-> finger, index |-> 0]
        ELSE IF self.num_buckets = 0
        THEN [panic |-> "rem_by_zero", sum |-> sum, finger |-> finger, index |-> 0]
        ELSE [panic |-> "none", sum |-> sum, finger |-> finger,
              index |-> h.lo % self.num_buckets]

\* finger8_index on an item whose hash is h:
\*   finger = ((h >> 32) % 255) as u8 + 1u8;  index = (h as u32) % num_buckets.
\* "sum" is the mathematical value of the addition and "finger" what fits the
\* u8 slot; the remainder by num_buckets = 0 panics.
finger8_index(self, h) ==
    LET sum == AsU8(h.hi % 255) + 1
        finger == AsU8(sum)
    IN  IF sum # finger
        THEN [panic |-> "overflow", sum |-> sum, finger |-> finger, index |-> 0]
        ELSE IF self.num_buckets = 0
        THEN [panic |-> "rem_by_zero", sum |-> sum, finger |-> finger, index |-> 0]
        ELSE [panic |-> "none", sum |-> sum, finger |-> finger,
              index |-> h.lo % self.num_buckets]

\* a variant without the + 1, whose fingerprint can be 0
finger16_index_without_plus_one(self, h) ==
    LET finger == AsU16(h.hi % 65535)
    IN  IF self.num_buckets = 0
        THEN [panic |-> "rem_by_zero", sum |-> finger, finger |-> finger,
              index |-> 0]
        ELSE [panic |-> "none", sum |-> finger, finger |-> finger,
              index |-> h.lo % self.num_buckets]

\* finger16_index: the same with modulus 65535 and a u16 slot
finger16_index(self, h) ==
    LET sum == AsU16(h.hi % 65535) + 1
        finger == AsU16(sum)
    IN  IF sum # finger
        THEN [panic |-> "overflow", sum |-> sum, finger |-> finger, index |-> 0]
        ELSE IF self.num_buckets = 0
        THEN [panic |-> "rem_by_zero", sum |-> sum, finger |-> finger, index |-> 0]
        ELSE [panic |-> "none", sum |-> sum, finger |-> finger,
              index |-> h.lo % self.num_buckets]

\* a variant that forgets the remainder
index_without_remainder(self, finger) == Hash64Low(finger)

\* index(&finger): (hash64(finger) as u32) % num_buckets, the partner bucket.
\* Only reached after fingerN_index returned, so num_buckets is not 0.
index(self, finger) == Hash64Low(finger) % self.num_buckets

---------------------------------------------------------------------------
(* Bucket store.  bt is the width of the calling path ("U8" for the _u8      *)
(* functions, "U16" for the _u16 ones); a store of the other variant hits   *)
(* unimplemented!(), and a slot outside the vector an index-out-of-bounds   *)
(* panic.  "touched" is the set of flat positions the call indexed.         *)

\* a variant that does not store a fingerprint the bucket already holds
try_insert_deduplicating(self, buckets, bucket, finger, bt) ==
    LET vec == buckets.vec
        start == bucket * self.num_entries
        range == (start .. (start + self.num_entries - 1)) \cap DOMAIN vec
        empty == {i \in range : vec[i] = 0}
    IN  IF \E i \in range : vec[i] = finger
        THEN [panic |-> "none", ok |-> TRUE, buckets |-> buckets,
              touched |-> range]
        ELSE IF empty = {}
        THEN [panic |-> "none", ok |-> FALSE, buckets |-> buckets,
              touched |-> range]
        ELSE [panic |-> "none", ok |-> TRUE,
              buckets |-> [buckets EXCEPT !.vec[Min(empty)] = finger],
              touched |-> start .. Min(empty)]

\* a variant that reports success on a full bucket, overwriting its first slot
try_insert_overwriting(self, buckets, bucket, finger, bt) ==
    LET vec == buckets.vec
        start == bucket * self.num_entries
        range == start .. (start + self.num_entries - 1)
        empty == {i \in range \cap DOMAIN vec : vec[i] = 0}
        i == IF empty = {} THEN start ELSE Min(empty)
    IN  IF i \in DOMAIN vec
        THEN [panic |-> "none", ok |-> TRUE,
              buckets |-> [buckets EXCEPT !.vec[i] = finger],
              touched |-> start .. i]
        ELSE [panic |-> "none", ok |-> FALSE, buckets |-> buckets,
              touched |-> {}]

\* a variant that fills a bucket from its last slot downwards
try_insert_last_empty(self, buckets, bucket, finger, bt) ==
    LET vec == buckets.vec
        start == bucket * self.num_entries
        range == start .. (start + self.num_entries - 1)
        empty == {i \in range \cap DOMAIN vec : vec[i] = 0}
    IN  IF empty = {}
        THEN [panic |-> "none", ok |-> FALSE, buckets |-> buckets,
              touched |-> range]
        ELSE LET i == CHOOSE j \in empty : \A k \in empty : k <= j
             IN  [panic |-> "none", ok |-> TRUE,
                  buckets |-> [buckets EXCEPT !.vec[i] = finger],
                  touched |-> range]

\* a variant whose scan stops one slot short of the end of the bucket
try_insert_missing_last(self, buckets, bucket, finger, bt) ==
    LET vec == buckets.vec
        start == bucket * self.num_entries
        range == start .. (start + self.num_entries - 2)
        empty == {i \in range \cap DOMAIN vec : vec[i] = 0}
    IN  IF empty = {}
        THEN [panic |-> "none", ok |-> FALSE, buckets |-> buckets,
              touched |-> range]
        ELSE [panic |-> "none", ok |-> TRUE,
              buckets |-> [buckets EXCEPT !.vec[Min(empty)] = finger],
              touched |-> start .. Min(empty)]

\* try_insert_u8 / try_insert_u16: write finger into the first empty slot of
\* the bucket, scanning start .. start + entries in order
try_insert(self, buckets, bucket, finger, bt) ==
    LET vec == buckets.vec
        entries == self.num_entries
        start == bucket * entries
        range == start .. (start + entries - 1)
        stops == {i \in range : i \notin DOMAIN vec \/ vec[i] = 0}
    IN  IF buckets.variant # bt
        THEN [panic |-> "unimplemented", ok |-> FALSE, buckets |-> buckets,
              touched |-> {}]
        ELSE IF stops = {}
        THEN [panic |-> "none", ok |-> FALSE, buckets |-> buckets,
              touched |-> range]
        ELSE LET i == Min(stops)
             IN  IF i \notin DOMAIN vec
                 THEN [panic |-> "out_of_bounds", ok |-> FALSE,
                       buckets |-> buckets, touched |-> start .. i]
                 ELSE [panic |-> "none", ok |-> TRUE,
                       buckets |-> [buckets EXCEPT !.vec[i] = finger],
                       touched |-> start .. i]

\* a variant that returns the slot's value without storing finger
swap_not_storing(self, buckets, idx, entry, finger, bt) ==
    LET i == idx * self.num_entries + entry
    IN  IF i \notin DOMAIN buckets.vec
        THEN [panic |-> "out_of_bounds", x |-> 0, buckets |-> buckets,
              touched |-> {i}]
        ELSE [panic |-> "none", x |-> buckets.vec[i], buckets |-> buckets,
              touched |-> {i}]

\* a variant that works on the next bucket instead of the one it is given
swap_in_next_bucket(self, buckets, idx, entry, finger, bt) ==
    LET i == ((idx + 1) % self.num_buckets) * self.num_entries + entry
    IN  IF i \notin DOMAIN buckets.vec
        THEN [panic |-> "out_of_bounds", x |-> 0, buckets |-> buckets,
              touched |-> {i}]
        ELSE [panic |-> "none", x |-> buckets.vec[i],
              buckets |-> [buckets EXCEPT !.vec[i] = finger], touched |-> {i}]

\* a variant that writes the chosen entry but hands back the bucket's first one
swap_reading_first_entry(self, buckets, idx, entry, finger, bt) ==
    LET i == idx * self.num_entries + entry
        first == idx * self.num_entries
    IN  IF i \notin DOMAIN buckets.vec
        THEN [panic |-> "out_of_bounds", x |-> 0, buckets |-> buckets,
              touched |-> {i}]
        ELSE [panic |-> "none", x |-> buckets.vec[first],
              buckets |-> [buckets EXCEPT !.vec[i] = finger], touched |-> {i}]

\* a variant that hands back the value it wrote instead of the one it replaced
swap_returning_written(self, buckets, idx, entry, finger, bt) ==
    LET i == idx * self.num_entries + entry
    IN  IF i \notin DOMAIN buckets.vec
        THEN [panic |-> "out_of_bounds", x |-> 0, buckets |-> buckets,
              touched |-> {i}]
        ELSE [panic |-> "none", x |-> finger,
              buckets |-> [buckets EXCEPT !.vec[i] = finger], touched |-> {i}]

\* a variant that takes the old value out and leaves the slot empty
swap_clearing(self, buckets, idx, entry, finger, bt) ==
    LET i == idx * self.num_entries + entry
    IN  IF i \notin DOMAIN buckets.vec
        THEN [panic |-> "out_of_bounds", x |-> 0, buckets |-> buckets,
              touched |-> {i}]
        ELSE [panic |-> "none", x |-> buckets.vec[i],
              buckets |-> [buckets EXCEPT !.vec[i] = 0], touched |-> {i}]

\* swap_u8 / swap_u16: overwrite slot index * num_entries + entry with finger
\* and return the value x it held
swap(self, buckets, idx, entry, finger, bt) ==
    LET vec == buckets.vec
        i == idx * self.num_entries + entry
    IN  IF buckets.variant # bt
        THEN [panic |-> "unimplemented", x |-> 0, buckets |-> buckets,
              touched |-> {}]
        ELSE IF i \notin DOMAIN vec
        THEN [panic |-> "out_of_bounds", x |-> 0, buckets |-> buckets,
              touched |-> {i}]
        ELSE [panic |-> "none", x |-> vec[i],
              buckets |-> [buckets EXCEPT !.vec[i] = finger],
              touched |-> {i}]

\* whether every slot of a bucket holds a fingerprint
BucketFull(self, buckets, bucket) ==
    \A e \in 0 .. self.num_entries - 1 :
        LET i == bucket * self.num_entries + e
        IN  i \in DOMAIN buckets.vec /\ buckets.vec[i] # 0

---------------------------------------------------------------------------
(* Random draws *)

\* rng.gen_range(low, high): the values a draw can return; an empty range
\* panics
gen_range(low, high) == low .. high - 1

\* [idx_1, idx_2].choose(rng): choice 0 picks idx_1, choice 1 picks idx_2
Choices == {0, 1}

\* one entry draw for each iteration of the relocation loop
DrawSeqs(self) ==
    IF gen_range(0, self.num_entries) = {}
    THEN {<<>>}
    ELSE [1 .. self.max_swaps -> gen_range(0, self.num_entries)]

NoDraws == [choice |-> 0, draws |-> <<>>]

---------------------------------------------------------------------------
(* Insertion.  The outcome of insert_u8 / insert_u16 is a record: kind is   *)
(* "Ok", "Err" or "Panic", n the number carried by Ok / Err, buckets the    *)
(* store as the call leaves it, and the rest a trace of what the call did:  *)
(* finger and idx_1, the item's fingerprint and primary index; dropped, the *)
(* fingerprint in hand when Err is returned (0 otherwise); indices, the     *)
(* bucket indices computed; positions, the flat slot positions indexed;     *)
(* path, one record per swap.                                               *)

Outcome(kind, n, why, buckets, dropped, t) ==
    [kind |-> kind, n |-> n, why |-> why, buckets |-> buckets,
     finger |-> t.finger, idx_1 |-> t.idx_1, dropped |-> dropped,
     indices |-> t.indices,
     positions |-> t.positions, path |-> t.path]

\* a variant that stores the fingerprint in hand before giving up
exhausted_storing(self, bt, buckets, idx, finger, t) ==
    LET s == swap(self, buckets, idx, 0, finger, bt)
    IN  Outcome("Err", self.max_swaps, "none", s.buckets, s.x, t)

\* return Err(self.max_swaps): the budget is spent, the store stays as it is
\* and the fingerprint in hand is dropped
exhausted(self, bt, buckets, idx, finger, t) ==
    Outcome("Err", self.max_swaps, "none", buckets, finger, t)

\* a variant whose range leaves out max_swaps: for swaps in 1 .. max_swaps
loop_done_exclusive(self, swaps) == swaps >= self.max_swaps

\* whether the range 1 ..= self.max_swaps is used up when the loop counter
\* would take the value swaps
loop_done(self, swaps) == swaps > self.max_swaps

\* the relocation loop: for swaps in 1 ..= max_swaps { ... }; Err(max_swaps)
RECURSIVE relocate(_, _, _, _, _, _, _, _)
relocate(self, bt, buckets, idx, finger, swaps, draws, t) ==
    IF loop_done(self, swaps)
    THEN exhausted(self, bt, buckets, idx, finger, t)
    ELSE IF gen_range(0, self.num_entries) = {}
    THEN Outcome("Panic", 0, "empty_range", buckets, 0, t)
    ELSE
      LET entry == draws[swaps]
          s == swap(self, buckets, idx, entry, finger, bt)
          step == [bucket |-> idx, entry |-> entry, evicted |-> s.x,
                   full |-> BucketFull(self, buckets, idx)]
          t1 == [t EXCEPT !.positions = @ \cup s.touched,
                          !.path = Append(@, step)]
      IN  IF s.panic # "none"
          THEN Outcome("Panic", 0, s.panic, s.buckets, 0, t1)
          ELSE
            LET next == index(self, s.x)
                a == try_insert(self, s.buckets, next, s.x, bt)
                t2 == [t1 EXCEPT !.indices = @ \cup {next},
                                 !.positions = @ \cup a.touched]
            IN  IF a.panic # "none"
                THEN Outcome("Panic", 0, a.panic, a.buckets, 0, t2)
                ELSE IF a.ok
                THEN Outcome("Ok", swaps, "none", a.buckets, 0, t2)
                ELSE relocate(self, bt, a.buckets, next, s.x, swaps + 1,
                              draws, t2)

\* the body shared by insert_u8 and insert_u16, fi being the result of
\* finger8_index / finger16_index
insert_width(self, fi, choice, draws, bt) ==
    LET t0 == [finger |-> fi.finger, idx_1 |-> fi.index, indices |-> {},
               positions |-> {}, path |-> <<>>]
    IN  IF fi.panic # "none"
        THEN Outcome("Panic", 0, fi.panic, self.buckets, 0, t0)
        ELSE
          LET idx_1 == fi.index
              a == try_insert(self, self.buckets, idx_1, fi.finger, bt)
              t1 == [t0 EXCEPT !.indices = {idx_1}, !.positions = a.touched]
          IN  IF a.panic # "none"
              THEN Outcome("Panic", 0, a.panic, a.buckets, 0, t1)
              ELSE IF a.ok
              THEN Outcome("Ok", 0, "none", a.buckets, 0, t1)
              ELSE
                LET idx_2 == index(self, fi.finger)
                    b == try_insert(self, a.buckets, idx_2, fi.finger, bt)
                    t2 == [t1 EXCEPT !.indices = @ \cup {idx_2},
                                     !.positions = @ \cup b.touched]
                IN  IF b.panic # "none"
                    THEN Outcome("Panic", 0, b.panic, b.buckets, 0, t2)
                    ELSE IF b.ok
                    THEN Outcome("Ok", 0, "none", b.buckets, 0, t2)
                    ELSE
                      LET idx == IF choice = 0 THEN idx_1 ELSE idx_2
                      IN  relocate(self, bt, b.buckets, idx, fi.finger, 1,
                                   draws, t2)

insert_u8(self, x, choice, draws) ==
    insert_width(self, finger8_index(self, x), choice, draws, "U8")

insert_u16(self, x, choice, draws) ==
    insert_width(self, finger16_index(self, x), choice, draws, "U16")

\* a variant that counts every call, whatever it returned
used_after_counting_err(self, result) == self.used + 1

\* if result.is_ok() { used += 1 }
used_after(self, result) ==
    IF result.kind = "Ok" THEN self.used + 1 ELSE self.used

\* Filter::insert: dispatch on bucket_type, then count the Ok
insert(self, x, choice, draws) ==
    LET result == IF self.bucket_type = "U8"
                  THEN insert_u8(self, x, choice, draws)
                  ELSE insert_u16(self, x, choice, draws)
    IN  [result |-> result,
         filter |-> [self EXCEPT !.buckets = result.buckets,
                                 !.used = used_after(self, result)]]

\* what the random generator can return during insert(x).  A call that
\* performs no swap never reads an entry draw, and the starting bucket it may
\* choose is then never used, so the draws are enumerated only for the calls
\* that reach a swap.
Randoms(self, x) ==
    LET zeros == [i \in 1 .. self.max_swaps |-> 0]
    IN  IF insert(self, x, 0, zeros).result.path = <<>>
        THEN {NoDraws}
        ELSE [choice : Choices, draws : DrawSeqs(self)]

---------------------------------------------------------------------------
(* The state machine *)

\* the fingerprints the sampled items have under a slot width
FingersOf(finger_bits) ==
    LET self == [num_buckets |-> 1]
    IN  {(IF finger_bits = 8 THEN finger8_index(self, h)
                             ELSE finger16_index(self, h)).finger :
            h \in Items(1)}

Init ==
    /\ lifecycle = "unconstructed"
    /\ config = NoConfig
    /\ filter = NoFilter
    /\ hash64_low = <<>>
    /\ calls = 0
    /\ oks = 0
    /\ last = NoCall
    /\ attempts = {}

\* Filter::new(&c).  The hash function is fixed for the run; its values on
\* the fingerprints of the chosen width are picked here.
New ==
    /\ lifecycle = "unconstructed"
    /\ \E c \in Configs :
         LET r == new(c)
         IN  /\ config' = c
             /\ IF r.ok
                THEN /\ lifecycle' = "operational"
                     /\ filter' = r.filter
                     /\ hash64_low' \in [FingersOf(c.finger_bits) ->
                                          LoWords(c.num_buckets)]
                ELSE /\ lifecycle' = "rejected"
                     /\ filter' = NoFilter
                     /\ hash64_low' = hash64_low
    /\ last' = [op |-> "new"]
    /\ UNCHANGED <<calls, oks, attempts>>

\* filter.insert(&x), for an item x and the draws of the random generator
Insert ==
    /\ lifecycle = "operational"
    /\ calls < MaxInserts
    /\ \E x \in Items(filter.num_buckets) :
       \E rnd \in Randoms(filter, x) :
         \E r \in {insert(filter, x, rnd.choice, rnd.draws)} :
             /\ filter' = r.filter
             /\ last' = [op |-> "insert", x |-> x, pre |-> filter,
                         result |-> r.result,
                         repeat |-> last.op = "insert" /\ last.x = x]
             /\ lifecycle' = IF r.result.kind = "Panic" THEN "panicked"
                                                        ELSE "operational"
             /\ oks' = IF r.result.kind = "Ok" THEN oks + 1 ELSE oks
             /\ attempts' =
                  IF filter.num_buckets = 0
                  THEN attempts
                  ELSE attempts \cup {[finger |-> r.result.finger,
                                       idx_1 |-> r.result.idx_1,
                                       ok |-> r.result.kind = "Ok"]}
    /\ calls' = calls + 1
    /\ UNCHANGED <<config, hash64_low>>

Next == New \/ Insert

Spec == Init /\ [][Next]_vars

---------------------------------------------------------------------------
(* The fingerprint computation on its own: a freshly built filter of either  *)
(* width, and fingerN_index applied to hashes whose high word sweeps a range *)
(* that wraps both moduli, up to 2^31 - 1, the largest integer TLC holds.     *)

WideHiWords ==
    (0 .. MaxHiWord)
        \cup {65533, 65534, 65535, 65536, 65537, 131069, 131070, 131071,
              2147483646, 2147483647}

InitFinger ==
    /\ lifecycle = "operational"
    /\ config \in {c \in Configs :
                     new(c).ok /\ c.max_swaps = 0 /\ c.num_entries = 1}
    /\ filter = new(config).filter
    /\ hash64_low = <<>>
    /\ calls = 0
    /\ oks = 0
    /\ last = [op |-> "new"]
    /\ attempts = {}

FingerIndex ==
    /\ lifecycle = "operational"
    /\ \E hi \in WideHiWords :
         LET h == [hi |-> hi, lo |-> 1]
         IN  last' = [op |-> "finger_index", x |-> h,
                      fi |-> IF filter.bucket_type = "U8"
                             THEN finger8_index(filter, h)
                             ELSE finger16_index(filter, h)]
    /\ UNCHANGED <<lifecycle, config, filter, hash64_low, calls, oks, attempts>>

NextFinger == FingerIndex

SpecFinger == InitFinger /\ [][NextFinger]_vars

---------------------------------------------------------------------------
(* Properties *)

\* a Config as the data model requires it
ValidConfig(c) ==
    /\ c.finger_bits \in {8, 16}
    /\ c.num_buckets > 0
    /\ c.num_entries > 0

Constructed == lifecycle \in {"operational", "panicked"}
Inserted == last.op = "insert"

\* number of slots of a store holding fingerprint f
Count(vec, f) == Cardinality({i \in DOMAIN vec : vec[i] = f})

\* C1: an insert that returns Ok increases used() by exactly 1, one that
\* returns Err leaves it unchanged, and so used() always equals the number
\* of Ok results of the calls made so far.
C1_UsedCountsOkResults ==
    /\ Constructed => filter.used = oks
    /\ Inserted =>
         /\ last.result.kind = "Ok" => filter.used = last.pre.used + 1
         /\ last.result.kind = "Err" => filter.used = last.pre.used

\* an Err returned after two Ok
C1_Witness ==
    /\ Inserted
    /\ last.result.kind = "Err"
    /\ oks = 2
    /\ calls = 3

\* C2: on a filter built from a valid Config, used() <= capacity() in every
\* reachable state, capacity() being num_buckets * num_entries.
C2_UsedWithinCapacity ==
    (Constructed /\ ValidConfig(config)) =>
        /\ capacity(filter) = config.num_buckets * config.num_entries
        /\ filter.used <= capacity(filter)

\* a full store of two slots on which a further insert went through the
\* relocation loop
C2_Witness ==
    /\ Inserted
    /\ ValidConfig(config)
    /\ capacity(filter) = 2
    /\ filter.used = capacity(filter)
    /\ last.pre.used = capacity(filter)
    /\ last.result.path # <<>>

\* C3, as claimed: every insert call returns Ok(n) with 0 <= n <= max_swaps
\* after exactly n swaps, or Err(max_swaps) after exactly max_swaps swaps, and
\* nothing else.  (Fails: a filter with num_buckets = 0, or with
\* num_entries = 0 and max_swaps >= 1, panics instead of returning.)
C3_OkOrErrWithinBudget ==
    Inserted =>
        \/ /\ last.result.kind = "Ok"
           /\ last.result.n \in 0 .. last.pre.max_swaps
           /\ Len(last.result.path) = last.result.n
        \/ /\ last.result.kind = "Err"
           /\ last.result.n = last.pre.max_swaps
           /\ Len(last.result.path) = last.pre.max_swaps

\* C4, as claimed: when insert returns Err, every slot that holds the item's
\* fingerprint after the call held it before the call.
C4_ErrItemNotStored ==
    (Inserted /\ last.result.kind = "Err") =>
        \A i \in DOMAIN filter.buckets.vec :
            filter.buckets.vec[i] = last.result.finger
                => last.pre.buckets.vec[i] = last.result.finger

\* C4, amended: when insert returns Err, the fingerprint dropped is the one in
\* hand when the relocation loop ends.  The store gains one occurrence of the
\* item's fingerprint unless the dropped fingerprint is the item's own; with
\* max_swaps = 0 it always is, and the store is unchanged.
C4_ErrDropsFingerInHand ==
    (Inserted /\ last.result.kind = "Err") =>
        LET f == last.result.finger
            d == last.result.dropped
            before == last.pre.buckets.vec
            after == filter.buckets.vec
        IN  /\ d # 0
            /\ Count(after, f) =
                 Count(before, f) + (IF d = f THEN 0 ELSE 1)
            /\ last.pre.max_swaps = 0 => (d = f /\ after = before)
            /\ d # f => Count(after, d) = Count(before, d) - 1

\* an Err after which the item's fingerprint is stored and another one is lost
C4_Witness ==
    /\ Inserted
    /\ last.result.kind = "Err"
    /\ last.result.dropped # last.result.finger
    /\ Count(filter.buckets.vec, last.result.finger) = 1
    /\ Count(last.pre.buckets.vec, last.result.finger) = 0

\* the item of the last call is the item of the call before it, and these
\* are the first two calls on the filter
SameKeyTwice == Inserted /\ calls = 2 /\ last.repeat

\* C5, as claimed: for every valid Config, inserting the same key twice in a
\* row into a fresh filter returns Ok both times and leaves used() = 2.
C5_SameKeyTwiceBothOk ==
    (SameKeyTwice /\ ValidConfig(config)) =>
        /\ oks = 2
        /\ last.result.kind = "Ok"
        /\ filter.used = 2

\* C5, amended: both calls return Ok(0), used() = 2 and the fingerprint is
\* stored twice, provided num_entries >= 2 or the key's partner bucket is not
\* its primary bucket; with num_entries = 1 and the partner bucket equal to
\* the primary one the second call returns Err(max_swaps) and used() stays 1.
C5_SameKeyTwiceNeedsRoom ==
    (SameKeyTwice /\ ValidConfig(config)) =>
        LET f == last.result.finger
            room == \/ filter.num_entries >= 2
                    \/ index(filter, f) # last.result.idx_1
        IN  /\ room =>
                 /\ oks = 2
                 /\ filter.used = 2
                 /\ last.result.kind = "Ok"
                 /\ last.result.n = 0
                 /\ Count(filter.buckets.vec, f) = 2
            /\ ~room =>
                 /\ oks = 1
                 /\ filter.used = 1
                 /\ last.result.kind = "Err"
                 /\ last.result.n = filter.max_swaps
                 /\ Count(filter.buckets.vec, f) = 1

\* the same key stored twice in one bucket of two entries
C5_Witness ==
    /\ SameKeyTwice
    /\ ValidConfig(config)
    /\ filter.num_entries = 2
    /\ oks = 2
    /\ Count(filter.buckets.vec, last.result.finger) = 2

\* C6: new succeeds exactly when finger_bits is 8 or 16, whatever the other
\* fields; the filter it returns has num_buckets * num_entries slots, all 0,
\* and used() = 0; a rejected Config produces no filter.
C6_NewSucceedsIffWidthSupported ==
    lifecycle # "unconstructed" =>
        /\ lifecycle = "rejected" <=> config.finger_bits \notin {8, 16}
        /\ lifecycle = "rejected" => filter = NoFilter
        /\ lifecycle # "rejected" =>
             /\ filter # NoFilter
             /\ filter.finger_bits = config.finger_bits
             /\ filter.num_buckets = config.num_buckets
             /\ filter.num_entries = config.num_entries
             /\ filter.max_swaps = config.max_swaps
             /\ DOMAIN filter.buckets.vec
                  = 0 .. config.num_buckets * config.num_entries - 1
        /\ (last.op = "new" /\ lifecycle = "operational") =>
             /\ \A i \in DOMAIN filter.buckets.vec : filter.buckets.vec[i] = 0
             /\ filter.used = 0

\* a 16-bit filter of four slots, just built
C6_Witness ==
    /\ last.op = "new"
    /\ lifecycle = "operational"
    /\ config.finger_bits = 16
    /\ Cardinality(DOMAIN filter.buckets.vec) = 4

\* C7: the fingerprint of a hash is ((hash >> 32) mod (2^finger_bits - 1)) + 1;
\* it lies in 1 .. 2^finger_bits - 1, is never 0, and the + 1 does not
\* overflow the slot.
C7_FingerprintNonZeroInRange ==
    last.op = "finger_index" =>
        LET m == 2 ^ filter.finger_bits - 1
        IN  /\ last.fi.finger = (last.x.hi % m) + 1
            /\ last.fi.finger \in 1 .. m
            /\ last.fi.finger # 0
            /\ last.fi.sum <= m
            /\ last.fi.panic # "overflow"

\* an 8-bit fingerprint that reaches the top of the slot from a high word
\* beyond one byte
C7_Witness ==
    /\ last.op = "finger_index"
    /\ filter.finger_bits = 8
    /\ last.x.hi > 255
    /\ last.fi.finger = 255

\* C8: on a filter built from a valid Config, every bucket index an insert
\* computes lies in 0 .. num_buckets - 1 and every flat position try_insert
\* or swap touches is a slot of the store.
C8_IndicesAndPositionsInRange ==
    (Inserted /\ ValidConfig(config)) =>
        /\ last.result.idx_1 \in 0 .. filter.num_buckets - 1
        /\ last.result.indices \subseteq 0 .. filter.num_buckets - 1
        /\ last.result.positions
             \subseteq 0 .. filter.num_buckets * filter.num_entries - 1
        /\ \A k \in DOMAIN last.result.path :
             /\ last.result.path[k].bucket \in 0 .. filter.num_buckets - 1
             /\ last.result.path[k].entry \in 0 .. filter.num_entries - 1
        /\ last.result.why # "out_of_bounds"

\* an insert that went twice round the relocation loop, through both buckets
C8_Witness ==
    /\ Inserted
    /\ ValidConfig(config)
    /\ Len(last.result.path) = 2
    /\ last.result.indices = {0, 1}
    /\ filter.num_entries = 2

\* C9, as claimed: on a filter built from any Config new accepts, the storage
\* variant matches the slot width and no insert ends otherwise than in Ok or
\* Err(max_swaps).  (Fails: new accepts num_buckets = 0 and num_entries = 0.)
C9_NoOtherFailure ==
    /\ Constructed =>
         /\ filter.buckets.variant = filter.bucket_type
         /\ filter.bucket_type = "U8" <=> filter.finger_bits = 8
         /\ filter.bucket_type = "U16" <=> filter.finger_bits = 16
    /\ Inserted =>
         \/ last.result.kind = "Ok"
         \/ last.result.kind = "Err" /\ last.result.n = last.pre.max_swaps

\* both candidate buckets of the last call's item were full before the call
BothCandidatesFull ==
    /\ last.pre.num_buckets > 0
    /\ BucketFull(last.pre, last.pre.buckets, last.result.idx_1)
    /\ BucketFull(last.pre, last.pre.buckets,
                  index(last.pre, last.result.finger))

\* C10: with max_swaps = 0, an insert whose two candidate buckets are full
\* returns Err(0) and leaves the store and used() unchanged; on a filter of
\* one bucket of one entry the first insert returns Ok(0) and every later one
\* Err(0).
C10_ZeroBudget ==
    Inserted =>
        /\ (last.pre.max_swaps = 0 /\ BothCandidatesFull) =>
             /\ last.result.kind = "Err"
             /\ last.result.n = 0
             /\ filter.buckets = last.pre.buckets
             /\ filter.used = last.pre.used
        /\ (filter.num_buckets = 1 /\ filter.num_entries = 1
                /\ filter.max_swaps = 0) =>
             /\ calls = 1 => (last.result.kind = "Ok" /\ last.result.n = 0)
             /\ calls > 1 => (last.result.kind = "Err" /\ last.result.n = 0)

\* the third insert on a filter of one slot and no swap budget, with an item
\* whose fingerprint is not the stored one
C10_Witness ==
    /\ Inserted
    /\ filter.num_buckets = 1
    /\ filter.num_entries = 1
    /\ filter.max_swaps = 0
    /\ calls = 3
    /\ last.result.kind = "Err"
    /\ filter.buckets.vec[0] # last.result.finger

\* every slot of a store holds a fingerprint
StoreFull(self) == \A i \in DOMAIN self.buckets.vec : self.buckets.vec[i] # 0

\* C11: on a filter of two buckets of one entry with max_swaps = 1 and both
\* slots occupied, an insert performs exactly one swap and returns Ok(1) or
\* Err(1), nothing else.
C11_TwoFullBucketsOneSwap ==
    (/\ Inserted
     /\ last.pre.num_buckets = 2
     /\ last.pre.num_entries = 1
     /\ last.pre.max_swaps = 1
     /\ StoreFull(last.pre)) =>
        /\ Len(last.result.path) = 1
        /\ last.result.kind \in {"Ok", "Err"}
        /\ last.result.n = 1

\* the third insert on such a filter, its first two having filled both slots
C11_Witness ==
    /\ Inserted
    /\ last.pre.num_buckets = 2
    /\ last.pre.num_entries = 1
    /\ last.pre.max_swaps = 1
    /\ StoreFull(last.pre)
    /\ calls = 3
    /\ oks = 2
    /\ Len(last.result.path) = 1

\* C13: a slot that holds a fingerprint never becomes empty again, whatever
\* the calls that follow; a swap only replaces it by another fingerprint, so
\* the occupied slots and used() never shrink.
C13_OccupiedSlotsStayOccupied ==
    [][Constructed =>
         /\ \A i \in DOMAIN filter.buckets.vec :
                filter.buckets.vec[i] # 0 => filter'.buckets.vec[i] # 0
         /\ filter'.used >= filter.used]_vars

\* a swap has replaced a stored fingerprint by a different one
C13_Witness ==
    /\ Inserted
    /\ last.result.path # <<>>
    /\ \E i \in DOMAIN filter.buckets.vec :
         /\ last.pre.buckets.vec[i] # 0
         /\ filter.buckets.vec[i] # 0
         /\ filter.buckets.vec[i] # last.pre.buckets.vec[i]

\* C14: every swap of the relocation loop, the first one and every later one
\* of the same insert, targets a bucket all of whose slots are occupied at
\* that moment, so the value it evicts is a fingerprint and never 0.
C14_SwapsTargetFullBuckets ==
    Inserted =>
        \A k \in DOMAIN last.result.path :
            /\ last.result.path[k].full
            /\ last.result.path[k].evicted # 0

\* an insert that made two swaps, the second in another bucket than the first
C14_Witness ==
    /\ Inserted
    /\ Len(last.result.path) = 2
    /\ last.result.path[1].bucket # last.result.path[2].bucket

\* the number of slots of a store that hold a fingerprint
Occupied(vec) == Cardinality({i \in DOMAIN vec : vec[i] # 0})

\* the fingerprints a store holds
Stored(vec) == {vec[i] : i \in DOMAIN vec} \ {0}

\* C15: when insert returns Err nothing is rolled back: the number of
\* occupied slots is unchanged, and the multiset of stored fingerprints after
\* the call is the multiset before it plus the item's fingerprint minus the
\* fingerprint evicted last, the one in hand when the loop exits.
C15_ErrNoRollback ==
    (Inserted /\ last.result.kind = "Err") =>
        LET f == last.result.finger
            d == last.result.dropped
            before == last.pre.buckets.vec
            after == filter.buckets.vec
            gain(v) == IF v = f THEN 1 ELSE 0
            loss(v) == IF v = d THEN 1 ELSE 0
        IN  /\ Occupied(after) = Occupied(before)
            /\ filter.used = last.pre.used
            /\ \A v \in Stored(before) \cup Stored(after) \cup {f, d} :
                  Count(after, v) = Count(before, v) + gain(v) - loss(v)
            /\ last.result.path # <<>> =>
                  d = last.result.path[Len(last.result.path)].evicted

\* an Err after two swaps that changed the store and dropped a fingerprint
\* other than the item's
C15_Witness ==
    /\ Inserted
    /\ last.result.kind = "Err"
    /\ Len(last.result.path) = 2
    /\ last.result.dropped # last.result.finger
    /\ filter.buckets.vec # last.pre.buckets.vec

\* the empty slots of a bucket, as flat positions
EmptySlots(self, bucket) ==
    {i \in (bucket * self.num_entries) ..
            (bucket * self.num_entries + self.num_entries - 1) :
        i \in DOMAIN self.buckets.vec /\ self.buckets.vec[i] = 0}

\* C16: if the item's primary bucket idx_1 has an empty slot, insert writes
\* the fingerprint into the lowest-numbered empty slot of idx_1, returns Ok(0)
\* and changes no other slot; otherwise, if the partner bucket idx_2 has an
\* empty slot, it does the same in idx_2; a try_insert into a full bucket
\* changes nothing.
C16_DirectPlacement ==
    /\ (Inserted /\ last.pre.num_buckets > 0) =>
          LET pre == last.pre
              f == last.result.finger
              e1 == EmptySlots(pre, last.result.idx_1)
              e2 == EmptySlots(pre, index(pre, f))
              before == pre.buckets.vec
              after == filter.buckets.vec
          IN  /\ e1 # {} =>
                    /\ last.result.kind = "Ok" /\ last.result.n = 0
                    /\ after = [before EXCEPT ![Min(e1)] = f]
              /\ (e1 = {} /\ e2 # {}) =>
                    /\ last.result.kind = "Ok" /\ last.result.n = 0
                    /\ after = [before EXCEPT ![Min(e2)] = f]
    /\ lifecycle = "operational" =>
          \A b \in 0 .. filter.num_buckets - 1 :
          \A f \in DOMAIN hash64_low :
              BucketFull(filter, filter.buckets, b) =>
                  LET a == try_insert(filter, filter.buckets, b, f,
                                      filter.bucket_type)
                  IN  ~a.ok /\ a.panic = "none" /\ a.buckets = filter.buckets

\* an item placed in the first of the two empty slots of its partner bucket,
\* its primary bucket being full
C16_Witness ==
    /\ Inserted
    /\ last.pre.num_buckets = 2
    /\ last.pre.num_entries = 2
    /\ EmptySlots(last.pre, last.result.idx_1) = {}
    /\ Cardinality(EmptySlots(last.pre, index(last.pre, last.result.finger))) = 2
    /\ last.result.kind = "Ok"
    /\ BucketFull(filter, filter.buckets, last.result.idx_1)

\* C17: in every state reachable by any sequence of inserts, used() is the
\* number of non-zero slots of the bucket store, so load_factor() is the
\* ratio of occupied slots to capacity.
C17_UsedIsOccupiedSlots ==
    Constructed =>
        /\ used(filter) = Occupied(filter.buckets.vec)
        /\ load_factor(filter) =
              [num |-> Occupied(filter.buckets.vec),
               den |-> Cardinality(DOMAIN filter.buckets.vec)]

\* a filter of 16-bit slots, partly filled, after an Err that changed the
\* store
C17_Witness ==
    /\ Inserted
    /\ filter.bucket_type = "U16"
    /\ last.result.kind = "Err"
    /\ filter.buckets.vec # last.pre.buckets.vec
    /\ used(filter) = 2
    /\ capacity(filter) = 2

\* C18: a successful insert never loses an existing entry: whenever insert
\* returns Ok(n), with or without relocations, the multiset of stored
\* fingerprints after the call is the multiset before the call plus exactly
\* one occurrence of the item's fingerprint.
C18_OkKeepsEveryEntry ==
    (Inserted /\ last.result.kind = "Ok") =>
        LET f == last.result.finger
            before == last.pre.buckets.vec
            after == filter.buckets.vec
        IN  /\ Count(after, f) = Count(before, f) + 1
            /\ \A v \in (Stored(before) \cup Stored(after)) \ {f} :
                  Count(after, v) = Count(before, v)

\* an Ok(2): two stored fingerprints were moved and both are still stored
C18_Witness ==
    /\ Inserted
    /\ last.result.kind = "Ok"
    /\ last.result.n = 2
    /\ last.result.path[1].entry # last.result.path[2].entry
    /\ Cardinality(Stored(filter.buckets.vec)) = 2

\* the stored fingerprint of slot i sits in its partner bucket or in the
\* primary bucket of one of the given items with that fingerprint
WellPlaced(i, items) ==
    LET f == filter.buckets.vec[i]
        b == i \div filter.num_entries
    IN  \/ b = index(filter, f)
        \/ \E a \in items : a.finger = f /\ a.idx_1 = b

\* C19, as claimed: in every reachable state each stored fingerprint f sits in
\* a bucket b such that b = index(f), the partner index, or b is the primary
\* index of some previously inserted item whose fingerprint is f.
C19_PlacedAtPartnerOrInsertedPrimary ==
    Constructed =>
        \A i \in DOMAIN filter.buckets.vec :
            filter.buckets.vec[i] # 0 =>
                WellPlaced(i, {a \in attempts : a.ok})

\* C19, amended: each stored fingerprint f sits in bucket index(f) or in the
\* primary bucket of some item with fingerprint f that was handed to insert
\* before, whether that call returned Ok or Err; no swap and no placement
\* puts a fingerprint into any other bucket.
C19_PlacedAtPartnerOrAttemptedPrimary ==
    Constructed =>
        \A i \in DOMAIN filter.buckets.vec :
            filter.buckets.vec[i] # 0 => WellPlaced(i, attempts)

\* after an Err, the item's fingerprint sits in the item's primary bucket,
\* which is not its partner bucket, and no item inserted with Ok accounts
\* for it
C19_Witness ==
    /\ Inserted
    /\ last.result.kind = "Err"
    /\ last.result.path # <<>>
    /\ \E i \in DOMAIN filter.buckets.vec :
         /\ filter.buckets.vec[i] = last.result.finger
         /\ i \div filter.num_entries = last.result.idx_1
         /\ ~WellPlaced(i, {a \in attempts : a.ok})

\* C20: once every slot of the bucket store is occupied (used() =
\* capacity()), every subsequent insert performs exactly max_swaps swaps and
\* returns Err(max_swaps); Ok is never returned again and used() stays equal
\* to capacity().
C20_FullStoreAlwaysErr ==
    (Inserted /\ StoreFull(last.pre) /\ used(last.pre) = capacity(last.pre)) =>
        /\ last.result.kind = "Err"
        /\ last.result.n = last.pre.max_swaps
        /\ Len(last.result.path) = last.pre.max_swaps
        /\ used(filter) = capacity(filter)
        /\ StoreFull(filter)

====
